---------------------------- MODULE Spec2Model ----------------------------
(***************************************************************************)
(* Model of jenkins_jobs/modules/hipchat_notif.py: HipChat.gen_xml, which  *)
(* extends a job's XML tree with a HipChat job property and a HipChat      *)
(* notifier publisher, driven by the `hipchat` mapping of the job data.    *)
(*                                                                         *)
(* Python values are tagged records (bool / str / NoneType); a Python      *)
(* string is a sequence of one-character strings, so that str() and        *)
(* .lower() are computed character by character.  A dict is a function     *)
(* whose DOMAIN is the set of keys present.  An XML element is a record    *)
(* [tag, text, children].                                                  *)
(***************************************************************************)
EXTENDS Naturals, Sequences, FiniteSets

VARIABLES
    xml_parent,   \* the job's XML root element, mutated in place by gen_xml
    data,         \* the job data passed to the most recent gen_xml call
    log,          \* messages given to logger.warn so far
    calls,        \* number of gen_xml calls made on xml_parent
    applied,      \* number of those calls that got past the gate of line 82
    outcome       \* how the most recent call ended

vars == <<xml_parent, data, log, calls, applied, outcome>>

(***************************************************************************)
(* Bounds of the model.                                                    *)
(***************************************************************************)
\* most notify-<result> keys present in one hipchat mapping
MaxNotify == 1
\* most gen_xml calls on one document in SpecSeq
MaxCalls == 3

(***************************************************************************)
(* Python values.                                                          *)
(***************************************************************************)
NoneV == [t |-> "NoneType", b |-> FALSE, s |-> <<>>]
BoolV(x) == [t |-> "bool", b |-> x, s |-> <<>>]
StrV(x) == [t |-> "str", b |-> FALSE, s |-> x]

\* bool(v): None, False and '' are falsy
Truthy(v) ==
    CASE v.t = "NoneType" -> FALSE
      [] v.t = "bool" -> v.b
      [] OTHER -> Len(v.s) > 0

\* str(v)
str(v) ==
    CASE v.t = "NoneType" -> <<"N", "o", "n", "e">>
      [] v.t = "bool" -> IF v.b THEN <<"T", "r", "u", "e">>
                                ELSE <<"F", "a", "l", "s", "e">>
      [] OTHER -> v.s

UpperCase == <<"A", "B", "C", "D", "E", "F", "G", "H", "I", "J", "K", "L", "M",
               "N", "O", "P", "Q", "R", "S", "T", "U", "V", "W", "X", "Y", "Z">>
LowerCase == <<"a", "b", "c", "d", "e", "f", "g", "h", "i", "j", "k", "l", "m",
               "n", "o", "p", "q", "r", "s", "t", "u", "v", "w", "x", "y", "z">>

LowerChar(c) ==
    IF \E i \in 1..Len(UpperCase) : UpperCase[i] = c
    THEN LowerCase[CHOOSE i \in 1..Len(UpperCase) : UpperCase[i] = c]
    ELSE c

\* s.lower()
lower(s) == [i \in 1..Len(s) |-> LowerChar(s[i])]

\* a or b, on Python strings
StrOr(a, b) == IF Len(a) > 0 THEN a ELSE b

\* d.get(k, default)
Get(d, k, default) == IF k \in DOMAIN d THEN d[k] ELSE default

(***************************************************************************)
(* xml.etree.ElementTree                                                   *)
(***************************************************************************)
Element(tag) == [tag |-> tag, text |-> NoneV, children |-> <<>>]

\* XML.SubElement(parent, tag): the parent with a new last child
SubElement(parent, child) == [parent EXCEPT !.children = Append(@, child)]

\* XML.SubElement(parent, tag).text = v, as the child element
TextElement(tag, v) == [Element(tag) EXCEPT !.text = v]

\* parent.find(tag): index of the first direct child with that tag, 0 for None
find(parent, tag) ==
    LET hits == {i \in 1..Len(parent.children) : parent.children[i].tag = tag}
    IN  IF hits = {} THEN 0
        ELSE CHOOSE i \in hits : \A j \in hits : i <= j

(***************************************************************************)
(* HipChat.gen_xml                                                         *)
(***************************************************************************)
PropertyTag == "jenkins.plugins.hipchat.HipChatNotifier_-HipChatJobProperty"
PublisherTag == "jenkins.plugins.hipchat.HipChatNotifier"
DeprecationWarning == "start-notify is deprecated please use notify-start"

\* the six (option key, element tag) pairs of the notify-<result> blocks
NotifyFields ==
    << <<"notify-success", "notifySuccess">>,
       <<"notify-aborted", "notifyAborted">>,
       <<"notify-not-built", "notifyNotBuilt">>,
       <<"notify-unstable", "notifyUnstable">>,
       <<"notify-failure", "notifyFailure">>,
       <<"notify-back-to-normal", "notifyBackToNormal">> >>

\* `not hipchat`: data has no hipchat entry (None) or an empty mapping
NoHipchat(d) == "hipchat" \notin DOMAIN d \/ DOMAIN d["hipchat"] = {}

\* mutant of Gated: enabled defaults to False when the key is missing
Gated_DefaultOff(d) ==
    \/ NoHipchat(d)
    \/ ~Truthy(Get(d["hipchat"], "enabled", BoolV(FALSE)))

\* mutant of Gated: the enabled switch is not consulted
Gated_IgnoresEnabled(d) == NoHipchat(d)

\* the early return: not hipchat or not hipchat.get('enabled', True)
Gated(d) ==
    \/ NoHipchat(d)
    \/ ~Truthy(Get(d["hipchat"], "enabled", BoolV(TRUE)))

\* hipchat.get('room', ''), the text given to the property block's room
RoomText(hipchat) == Get(hipchat, "room", StrV(<<>>))

\* mutant of Warns: warns only when start-notify is the boolean True
Warns_OnlyTrue(hipchat) == Get(hipchat, "start-notify", NoneV) = BoolV(TRUE)

\* if hipchat.get('start-notify'): logger.warn(...)
Warns(hipchat) == Truthy(Get(hipchat, "start-notify", NoneV))

\* hipchat.get('start-notify') is not None or
\* hipchat.get('notify-start') is not None
StartPresent(hipchat) ==
    \/ Get(hipchat, "start-notify", NoneV) # NoneV
    \/ Get(hipchat, "notify-start", NoneV) # NoneV

\* mutant of StartValue: the deprecated start-notify takes precedence
StartValue_LegacyFirst(hipchat) ==
    LET value == lower(StrOr(str(Get(hipchat, "start-notify", StrV(<<>>))),
                             str(Get(hipchat, "notify-start", StrV(<<>>)))))
    IN  IF value = <<>> THEN <<"f", "a", "l", "s", "e">> ELSE value

\* the value written to startNotification
StartValue(hipchat) ==
    LET value == lower(StrOr(str(Get(hipchat, "notify-start", StrV(<<>>))),
                             str(Get(hipchat, "start-notify", StrV(<<>>)))))
    IN  IF value = <<>> THEN <<"f", "a", "l", "s", "e">> ELSE value

\* one notify-<result> block: the element is written when the option is not None
NotifyElement(pdef, hipchat, key, tag) ==
    IF Get(hipchat, key, NoneV) # NoneV
    THEN SubElement(pdef,
             TextElement(tag, StrV(lower(str(Get(hipchat, key, NoneV))))))
    ELSE pdef

\* the six notify-<result> blocks, in source order from the i-th on
RECURSIVE NotifyElements(_, _, _)
NotifyElements(pdef, hipchat, i) ==
    IF i > Len(NotifyFields) THEN pdef
    ELSE NotifyElements(
             NotifyElement(pdef, hipchat, NotifyFields[i][1], NotifyFields[i][2]),
             hipchat, i + 1)

\* the HipChatJobProperty element as gen_xml leaves it
pdefhip(hipchat) ==
    LET withRoom == SubElement(Element(PropertyTag),
                               TextElement("room", RoomText(hipchat)))
        withStart == IF StartPresent(hipchat)
                     THEN SubElement(withRoom,
                              TextElement("startNotification",
                                          StrV(StartValue(hipchat))))
                     ELSE withRoom
    IN  NotifyElements(withStart, hipchat, 1)

\* mutant of hippub: the job's room is written to the publisher
hippub_JobRoom(hipchat) ==
    SubElement(Element(PublisherTag), TextElement("room", RoomText(hipchat)))

\* the HipChatNotifier publisher element: its room is left empty
hippub(hipchat) ==
    SubElement(Element(PublisherTag), TextElement("room", StrV(<<>>)))

\* mutant of FindOrCreate: a section is created on every call
FindOrCreate_Always(root, tag) == SubElement(root, Element(tag))

\* section = xml_parent.find(tag); if section is None: SubElement(xml_parent, tag)
FindOrCreate(root, tag) ==
    IF find(root, tag) = 0 THEN SubElement(root, Element(tag)) ELSE root

\* mutant of AddBlock: the block is inserted as the section's first child
AddBlock_First(root, tag, block) ==
    LET r == FindOrCreate(root, tag)
        i == find(r, tag)
    IN  [r EXCEPT !.children[i].children = <<block>> \o @]

\* XML.SubElement(section, ...) on the section found or created
AddBlock(root, tag, block) ==
    LET r == FindOrCreate(root, tag)
        i == find(r, tag)
    IN  [r EXCEPT !.children[i] = SubElement(@, block)]

\* the tree after gen_xml(parser, root, d)
gen_xml_tree(root, d) ==
    IF Gated(d) THEN root
    ELSE AddBlock(AddBlock(root, "properties", pdefhip(d["hipchat"])),
                  "publishers", hippub(d["hipchat"]))

\* the log after gen_xml(parser, root, d)
gen_xml_log(l, d) ==
    IF ~Gated(d) /\ Warns(d["hipchat"]) THEN Append(l, DeprecationWarning) ELSE l

(***************************************************************************)
(* Inputs: hipchat mappings, job data, and the documents gen_xml is given. *)
(***************************************************************************)
NotifyKeys == {NotifyFields[i][1] : i \in 1..Len(NotifyFields)}
Keys == {"enabled", "room", "start-notify", "notify-start"} \cup NotifyKeys

ValuesOf(k) ==
    CASE k = "enabled" -> {BoolV(TRUE), BoolV(FALSE)}
      [] k = "room" -> {StrV(<<"D", "e", "v">>)}
      [] k = "start-notify" ->
             {BoolV(TRUE), BoolV(FALSE), StrV(<<>>), StrV(<<"0">>)}
      [] k = "notify-start" -> {BoolV(TRUE), BoolV(FALSE), StrV(<<>>)}
      [] OTHER -> {BoolV(TRUE), BoolV(FALSE), StrV(<<"Y", "e", "s">>)}

EmptyMap == [k \in {} |-> NoneV]
Extend(h, k, v) == [x \in DOMAIN h \cup {k} |-> IF x = k THEN v ELSE h[x]]
Without(h, k) == [x \in DOMAIN h \ {k} |-> h[x]]

RECURSIVE MapsOver(_)
MapsOver(S) ==
    IF S = {} THEN {EmptyMap}
    ELSE LET k == CHOOSE x \in S : TRUE
         IN  {Extend(h, k, v) : h \in MapsOver(S \ {k}), v \in ValuesOf(k)}

\* every hipchat mapping with at most MaxNotify notify-<result> keys
OptionsSet ==
    UNION {MapsOver(S) :
              S \in {T \in SUBSET Keys : Cardinality(T \cap NotifyKeys) <= MaxNotify}}

\* job data: no hipchat entry, or a hipchat mapping
DataSet == {EmptyMap} \cup {[hipchat |-> h] : h \in OptionsSet}

Root(children) == [tag |-> "project", text |-> NoneV, children |-> children]
Description == TextElement("description", StrV(<<"j", "o", "b">>))
OtherProperty == Element("hudson.model.ParametersDefinitionProperty")
OtherPublisher == Element("hudson.tasks.Mailer")
EarlierProperty ==
    SubElement(Element(PropertyTag), TextElement("room", StrV(<<"O", "l", "d">>)))

EarlierPublisher ==
    SubElement(Element(PublisherTag), TextElement("room", StrV(<<>>)))

\* a section is absent, or present with one of the given child lists
Sections(tag, contents) ==
    {<<>>} \cup {<<[Element(tag) EXCEPT !.children = c]>> : c \in contents}

\* <description>, then the properties section, then the publishers section
Documents(props, pubs) ==
    {Root(<<Description>> \o p \o q) :
        p \in Sections("properties", props), q \in Sections("publishers", pubs)}

\* the same children with the publishers section first
Reordered(props, pubs) ==
    {Root(q \o p \o <<Description>>) :
        p \in Sections("properties", props), q \in Sections("publishers", pubs)}

\* documents as any earlier module, or an earlier gen_xml call, may leave them
InitDocs ==
    Documents({<<>>, <<OtherProperty>>, <<EarlierProperty, OtherProperty>>},
              {<<>>, <<OtherPublisher>>, <<EarlierPublisher, OtherPublisher>>})
    \cup Reordered({<<OtherProperty>>}, {<<OtherPublisher>>})

\* documents that hold no HipChat block yet
InitDocsSeq ==
    Documents({<<>>, <<OtherProperty>>}, {<<>>, <<OtherPublisher>>})
    \cup Reordered({<<>>, <<OtherProperty>>}, {<<>>, <<OtherPublisher>>})

\* the job data of the call sequences of SpecSeq
SeqDataSet ==
    {EmptyMap,
     [hipchat |-> EmptyMap],
     [hipchat |-> [enabled |-> BoolV(FALSE), room |-> StrV(<<"D", "e", "v">>)]],
     [hipchat |-> [room |-> StrV(<<"D", "e", "v">>)]],
     [hipchat |-> [enabled |-> BoolV(TRUE)]],
     [hipchat |-> Extend([enabled |-> BoolV(TRUE)], "start-notify", BoolV(TRUE))],
     [hipchat |-> Extend(EmptyMap, "notify-success", BoolV(FALSE))]}

(***************************************************************************)
(* The state machine.                                                      *)
(***************************************************************************)
TypeInit(docs) ==
    /\ xml_parent \in docs
    /\ data = EmptyMap
    /\ log = <<>>
    /\ calls = 0
    /\ applied = 0
    /\ outcome = "none"

\* one call gen_xml(parser, xml_parent, d); no statement of it raises
gen_xml(d) ==
    /\ xml_parent' = gen_xml_tree(xml_parent, d)
    /\ log' = gen_xml_log(log, d)
    /\ data' = d
    /\ calls' = calls + 1
    /\ applied' = IF Gated(d) THEN applied ELSE applied + 1
    /\ outcome' = "returned"

\* one transformation call on a document, over every hipchat mapping
Init == TypeInit(InitDocs)
Next == calls = 0 /\ \E d \in DataSet : gen_xml(d)
Spec == Init /\ [][Next]_vars

\* a sequence of calls on one document
InitSeq == TypeInit(InitDocsSeq)
NextSeq == calls < MaxCalls /\ \E d \in SeqDataSet : gen_xml(d)
SpecSeq == InitSeq /\ [][NextSeq]_vars

(***************************************************************************)
(* Vocabulary of the properties.                                           *)
(***************************************************************************)
sTrue == <<"t", "r", "u", "e">>
sFalse == <<"f", "a", "l", "s", "e">>
sZero == <<"0">>

\* the most recent call got past the gate and extended the document
LastApplied == calls > 0 /\ ~Gated(data)

\* number of direct children of root carrying the tag
SectionCount(root, tag) ==
    Cardinality({i \in 1..Len(root.children) : root.children[i].tag = tag})

\* number of blocks tagged blockTag under the sections tagged sectionTag
BlockCount(root, sectionTag, blockTag) ==
    Cardinality(UNION {
        {<<i, j>> : j \in {k \in 1..Len(root.children[i].children) :
                              root.children[i].children[k].tag = blockTag}} :
        i \in {k \in 1..Len(root.children) : root.children[k].tag = sectionTag}})

\* the last child of the section carrying the tag
NewBlock(root, tag) ==
    LET c == root.children[find(root, tag)].children IN c[Len(c)]

\* the texts of the block's fields carrying the tag, in document order
Texts(block, tag) ==
    LET f == SelectSeq(block.children, LAMBDA e : e.tag = tag)
    IN  [i \in 1..Len(f) |-> f[i].text]

\* the lower-cased spelling of an option value
Spelled(v) == IF v.t = "bool" THEN (IF v.b THEN sTrue ELSE sFalse) ELSE lower(v.s)

\* the key is present with a value whose spelling is not empty
NonEmpty(h, k) == k \in DOMAIN h /\ Spelled(h[k]) # <<>>

EnabledAbsentOrTrue(h) == "enabled" \notin DOMAIN h \/ h["enabled"] = BoolV(TRUE)

\* the step adds exactly one HipChat property block and one publisher block
AddsOneOfEach ==
    /\ BlockCount(xml_parent', "properties", PropertyTag)
         = BlockCount(xml_parent, "properties", PropertyTag) + 1
    /\ BlockCount(xml_parent', "publishers", PublisherTag)
         = BlockCount(xml_parent, "publishers", PublisherTag) + 1

C2_DisabledChangesNothing ==
    [][("hipchat" \in DOMAIN data'
          /\ "enabled" \in DOMAIN data'["hipchat"]
          /\ ~Truthy(data'["hipchat"]["enabled"]))
         => (xml_parent' = xml_parent /\ log' = log)]_vars

C2_Witness ==
    /\ calls = 1
    /\ "hipchat" \in DOMAIN data
    /\ {"enabled", "start-notify", "room"} \subseteq DOMAIN data["hipchat"]
    /\ data["hipchat"]["enabled"] = BoolV(FALSE)
    /\ data["hipchat"]["start-notify"] = BoolV(TRUE)
    /\ xml_parent \in InitDocs
    /\ log = <<>>

(***************************************************************************)
(* C3. As the module docstring states: a call whose hipchat mapping does   *)
(* not set `enabled` explicitly to true (absent or false) writes nothing   *)
(* to the document.                                                        *)
(***************************************************************************)
C3_NotExplicitlyEnabledWritesNothing ==
    [][("hipchat" \in DOMAIN data'
          /\ Get(data'["hipchat"], "enabled", NoneV) # BoolV(TRUE))
         => xml_parent' = xml_parent]_vars

(***************************************************************************)
(* C4. After a call that got past the gate, the new property block has no  *)
(* startNotification field when neither start-notify nor notify-start is   *)
(* present; otherwise it has exactly one, whose text is the lower-cased     *)
(* notify-start when that is present and non-empty, else the lower-cased    *)
(* start-notify when that is present and non-empty, else "false".           *)
(***************************************************************************)
C4_Expected(h) ==
    IF NonEmpty(h, "notify-start") THEN Spelled(h["notify-start"])
    ELSE IF NonEmpty(h, "start-notify") THEN Spelled(h["start-notify"])
    ELSE sFalse

C4_StartNotificationPrecedence ==
    LastApplied =>
        LET h == data["hipchat"]
            got == Texts(NewBlock(xml_parent, "properties"), "startNotification")
        IN  IF "start-notify" \notin DOMAIN h /\ "notify-start" \notin DOMAIN h
            THEN got = <<>>
            ELSE got = <<StrV(C4_Expected(h))>>

C4_Witness ==
    /\ LastApplied
    /\ {"start-notify", "notify-start"} \subseteq DOMAIN data["hipchat"]
    /\ data["hipchat"]["start-notify"] = BoolV(TRUE)
    /\ data["hipchat"]["notify-start"] = BoolV(FALSE)
    /\ Texts(NewBlock(xml_parent, "properties"), "startNotification")
         = <<StrV(sFalse)>>

(***************************************************************************)
(* C5. As claimed: after a call that got past the gate, for each of the    *)
(* six notify-<result> keys the new property block holds the corresponding *)
(* field exactly when the key is present, and a field that is written has  *)
(* the text "true" or "false".                                             *)
(***************************************************************************)
C5_NotifyFieldsAreBoolStrings ==
    LastApplied =>
        \A i \in 1..Len(NotifyFields) :
            LET h == data["hipchat"]
                got == Texts(NewBlock(xml_parent, "properties"), NotifyFields[i][2])
            IN  /\ Len(got) = (IF NotifyFields[i][1] \in DOMAIN h THEN 1 ELSE 0)
                /\ \A j \in 1..Len(got) : got[j] \in {StrV(sTrue), StrV(sFalse)}

(***************************************************************************)
(* C6. After a call that got past the gate, the new publisher block has    *)
(* exactly one room field and its text is the empty string, and the new    *)
(* property block has exactly one room field whose text is the `room`      *)
(* option as given, or the empty string when `room` is absent.             *)
(***************************************************************************)
C6_RoomOnlyInProperty ==
    LastApplied =>
        LET h == data["hipchat"] IN
        /\ Texts(NewBlock(xml_parent, "publishers"), "room") = <<StrV(<<>>)>>
        /\ Texts(NewBlock(xml_parent, "properties"), "room")
             = <<IF "room" \in DOMAIN h THEN h["room"] ELSE StrV(<<>>)>>

C6_Witness ==
    /\ LastApplied
    /\ "room" \in DOMAIN data["hipchat"]
    /\ data["hipchat"]["room"] = StrV(<<"D", "e", "v">>)
    /\ Texts(NewBlock(xml_parent, "properties"), "room") = <<StrV(<<"D", "e", "v">>)>>
    /\ Texts(NewBlock(xml_parent, "publishers"), "room") = <<StrV(<<>>)>>

(***************************************************************************)
(* C7. Across any sequence of calls on a document that started with at     *)
(* most one `properties` and at most one `publishers` section, the root    *)
(* never has more than one child of either name.                           *)
(***************************************************************************)
C7_SectionsNeverDuplicated ==
    /\ SectionCount(xml_parent, "properties") <= 1
    /\ SectionCount(xml_parent, "publishers") <= 1

C7_Witness ==
    /\ calls >= 2
    /\ applied >= 2
    /\ SectionCount(xml_parent, "properties") = 1
    /\ SectionCount(xml_parent, "publishers") = 1

(***************************************************************************)
(* C8. As claimed: a call whose hipchat mapping holds a value of an        *)
(* unexpected type (a non-boolean for a notify-<result> key) ends in a     *)
(* configuration-validation error with the document as it was before.      *)
(***************************************************************************)
Malformed(h) == \E k \in NotifyKeys \cap DOMAIN h : h[k].t # "bool"

C8_MalformedValueIsRejected ==
    [][("hipchat" \in DOMAIN data' /\ Malformed(data'["hipchat"]))
         => (outcome' = "configuration-validation error"
             /\ xml_parent' = xml_parent)]_vars

(***************************************************************************)
(* C9. As claimed: a call that gets past the gate with start-notify = "0"  *)
(* and no non-empty notify-start writes startNotification "false" and      *)
(* leaves the document and the log as the same call without start-notify   *)
(* would.                                                                  *)
(***************************************************************************)
C9_Zero(d) ==
    /\ ~Gated(d)
    /\ "start-notify" \in DOMAIN d["hipchat"]
    /\ d["hipchat"]["start-notify"] = StrV(sZero)
    /\ ~NonEmpty(d["hipchat"], "notify-start")

C9_Absent(d) ==
    /\ ~Gated(d)
    /\ "start-notify" \notin DOMAIN d["hipchat"]
    /\ ~NonEmpty(d["hipchat"], "notify-start")

C9_ZeroIsTreatedAsAbsent ==
    [][C9_Zero(data')
         => LET without == [hipchat |-> Without(data'["hipchat"], "start-notify")]
            IN  /\ Texts(NewBlock(xml_parent', "properties"), "startNotification")
                     = <<StrV(sFalse)>>
                /\ xml_parent' = gen_xml_tree(xml_parent, without)
                /\ log' = gen_xml_log(log, without)]_vars

\* C9 as amended: start-notify = "0" is not treated as an absent start-notify.
\* A call that gets past the gate with start-notify = "0" and no non-empty
\* notify-start writes startNotification "0" and logs the deprecation warning;
\* with start-notify absent it logs nothing and writes "false" when
\* notify-start is present (and empty), and no startNotification otherwise.
C9_ZeroIsWrittenAndWarned ==
    [][/\ C9_Zero(data')
            => /\ Texts(NewBlock(xml_parent', "properties"), "startNotification")
                    = <<StrV(sZero)>>
               /\ log' = Append(log, DeprecationWarning)
       /\ C9_Absent(data')
            => /\ Texts(NewBlock(xml_parent', "properties"), "startNotification")
                    = (IF "notify-start" \in DOMAIN data'["hipchat"]
                       THEN <<StrV(sFalse)>> ELSE <<>>)
               /\ log' = log]_vars

C9_Witness ==
    /\ LastApplied
    /\ DOMAIN data["hipchat"] = {"start-notify", "notify-start"}
    /\ data["hipchat"]["start-notify"] = StrV(sZero)
    /\ data["hipchat"]["notify-start"] = StrV(<<>>)
    /\ Texts(NewBlock(xml_parent, "properties"), "startNotification")
         = <<StrV(sZero)>>
    /\ log = <<DeprecationWarning>>

(***************************************************************************)
(* C10. Every call that gets past the gate only appends: each element the  *)
(* root held before is unchanged and in place, except that the             *)
(* `properties` and `publishers` sections each gain one last child, the    *)
(* new HipChat property block and the new HipChat publisher block; a       *)
(* section that was missing is appended to the root holding just that      *)
(* block.  On a document that started without HipChat blocks, the number   *)
(* of HipChat property blocks and of HipChat publisher blocks both equal   *)
(* the number of calls that were not gated off.                            *)
(***************************************************************************)
BlockTagOf(sectionTag) ==
    IF sectionTag = "properties" THEN PropertyTag ELSE PublisherTag

GainsLastBlock(old, new) ==
    /\ new.tag = old.tag
    /\ new.text = old.text
    /\ Len(new.children) = Len(old.children) + 1
    /\ SubSeq(new.children, 1, Len(old.children)) = old.children
    /\ new.children[Len(new.children)].tag = BlockTagOf(old.tag)

AppendOnly(old, new) ==
    LET n == Len(old.children)
        sections == {"properties", "publishers"}
    IN  /\ new.tag = old.tag
        /\ new.text = old.text
        /\ Len(new.children) >= n
        /\ \A i \in 1..n :
              IF old.children[i].tag \in sections
              THEN GainsLastBlock(old.children[i], new.children[i])
              ELSE new.children[i] = old.children[i]
        /\ \A i \in (n + 1)..Len(new.children) :
              /\ new.children[i].tag \in sections
              /\ find(old, new.children[i].tag) = 0
              /\ GainsLastBlock(Element(new.children[i].tag), new.children[i])
        /\ \A s \in sections : SectionCount(new, s) = 1

BlocksMatchCalls ==
    /\ BlockCount(xml_parent, "properties", PropertyTag) = applied
    /\ BlockCount(xml_parent, "publishers", PublisherTag) = applied

C10_AppendOnly ==
    /\ BlocksMatchCalls
    /\ [][/\ applied' = applied + 1 => AppendOnly(xml_parent, xml_parent')
          /\ applied' = applied => xml_parent' = xml_parent
          /\ BlocksMatchCalls']_vars

C10_Witness ==
    /\ calls = 3
    /\ applied = 2
    /\ Gated(data)
    /\ BlockCount(xml_parent, "properties", PropertyTag) = 2
    /\ BlockCount(xml_parent, "publishers", PublisherTag) = 2
    /\ Len(xml_parent.children[find(xml_parent, "properties")].children) = 3

=============================================================================
